---- MODULE Spec2Model ----
(***************************************************************************)
(* Restaurant ordering backend (src/main.py): the document store's two     *)
(* collections, the five /api handlers and the pricing arithmetic of       *)
(* create_order.                                                           *)
(*                                                                         *)
(* Money is fixed-point: every amount is an integer number of mills        *)
(* (thousandths of a dollar), so 11.99 is 11990 and a menu price with      *)
(* three decimal places such as 0.187 is 187.  round(x, 2) rounds to a     *)
(* multiple of 10 mills, ties to even, as Python's round does on a value   *)
(* that is exactly representable.                                          *)
(*                                                                         *)
(* A document (a Python dict / BSON document) is a function from the       *)
(* field names it has to their values; a missing field is missing from     *)
(* the DOMAIN.                                                             *)
(***************************************************************************)
EXTENDS Integers, Sequences, FiniteSets, TLC

\* ------------------------------------------------------------------------
\* Bounds of the exploration
\* ------------------------------------------------------------------------
\* documents added to the menu collection through POST /api/menu
MaxAdds == 2
\* documents the order collection may hold
MaxOrders == 1
\* (item_id, quantity) pairs in one create-order request
MaxItems == 2
\* server processes that each handle one POST /api/menu/seed
NumSeeders == 2

\* ------------------------------------------------------------------------
\* Values: identifiers and strings
\* ------------------------------------------------------------------------
\* a store-assigned bson.ObjectId, numbered in order of assignment
OID(n) == [t |-> "ObjectId", n |-> n, up |-> FALSE, s |-> ""]
\* an integer value
INT(n) == [t |-> "int", n |-> n, up |-> FALSE, s |-> ""]
\* the 24-digit hexadecimal string that spells ObjectId n, in lower or upper case
HEX(n, up) == [t |-> "hex", n |-> n, up |-> up, s |-> ""]
\* any other string
TXT(s) == [t |-> "str", n |-> 0, up |-> FALSE, s |-> s]

\* Python truthiness of a value
Truthy(v) ==
    CASE v.t = "ObjectId" -> TRUE
      [] v.t = "int" -> v.n # 0
      [] v.t = "hex" -> TRUE
      [] OTHER -> v.s # ""

\* str(v): an ObjectId prints as its lower-case hexadecimal digits
Str(v) ==
    CASE v.t = "ObjectId" -> HEX(v.n, FALSE)
      [] v.t = "int" -> TXT(ToString(v.n))
      [] OTHER -> v

\* ObjectId(s) accepts exactly the 24-digit hexadecimal strings, in either case
IsObjectIdString(s) == s.t = "hex"
ObjectId(s) == OID(s.n)

\* a price field: a number of mills, or a value float() cannot convert
Num(v) == [num |-> TRUE, v |-> v]
NotANumber == [num |-> FALSE, v |-> 0]

\* notes: Optional[str]
None == [some |-> FALSE, s |-> ""]
Some(s) == [some |-> TRUE, s |-> s]

\* ------------------------------------------------------------------------
\* dict helpers
\* ------------------------------------------------------------------------
Has(doc, f) == f \in DOMAIN doc
Without(doc, f) == [g \in DOMAIN doc \ {f} |-> doc[g]]
With(doc, f, v) == (f :> v) @@ doc

\* ------------------------------------------------------------------------
\* State
\* ------------------------------------------------------------------------
\* db:       the store handle main.py imports (FALSE: db is None)
\* menuitem: the "menuitem" collection
\* order:    the "order" collection
\* resp:     the response to the request handled last
\* request:  the body of the create-order request handled last, where it is recorded
\* pc, count: per seeding process, its place in seed_menu and its local count
VARIABLES db, menuitem, order, resp, request, pc, count

vars == <<db, menuitem, order, resp, request, pc, count>>

Seeders == 1..NumSeeders

NoResponse == [op |-> "none", status |-> 0, detail |-> "", docs |-> <<>>,
               seeded |-> FALSE, count |-> 0]

NoRequest ==
    [customer_name |-> "", customer_email |-> "", customer_address |-> "",
     items |-> <<>>, notes |-> None]

Init ==
    /\ db \in BOOLEAN
    /\ menuitem = <<>>
    /\ order = <<>>
    /\ resp = NoResponse
    /\ request = NoRequest
    /\ pc = [p \in Seeders |-> "idle"]
    /\ count = [p \in Seeders |-> 0]

\* ------------------------------------------------------------------------
\* The document store (pymongo collections; a collection is the sequence of
\* its documents in insertion order)
\* ------------------------------------------------------------------------
\* a new ObjectId, different from every ObjectId in the collection
FreshObjectId(coll, k) ==
    OID(Cardinality({i \in DOMAIN coll : coll[i]["_id"].t = "ObjectId"}) + k)

\* insert_one keeps a supplied _id and assigns an ObjectId otherwise
WithStoreId(coll, doc, k) ==
    IF Has(doc, "_id") THEN doc ELSE With(doc, "_id", FreshObjectId(coll, k))

\* the unique index on _id: DuplicateKeyError
DuplicateKey(coll, doc) ==
    Has(doc, "_id") /\ \E i \in DOMAIN coll : coll[i]["_id"] = doc["_id"]

InsertOne(coll, doc) == Append(coll, WithStoreId(coll, doc, 1))

RECURSIVE InsertMany(_, _)
InsertMany(coll, docs) ==
    IF docs = <<>> THEN coll
    ELSE InsertMany(InsertOne(coll, Head(docs)), Tail(docs))

\* find_one({"_id": id}): the document or the empty dict standing for None
NoDoc == [f \in {} |-> 0]
FindOneById(coll, id) ==
    IF \E i \in DOMAIN coll : coll[i]["_id"] = id
    THEN coll[CHOOSE i \in DOMAIN coll : coll[i]["_id"] = id]
    ELSE NoDoc

IsAvailable(doc) == Has(doc, "available") /\ doc["available"] = TRUE
\* find({"available": True})
FindAvailable(coll) == SelectSeq(coll, IsAvailable)

\* ------------------------------------------------------------------------
\* serialize_doc
\* ------------------------------------------------------------------------
serialize_doc(doc) ==
    IF DOMAIN doc = {} THEN doc
    ELSE IF Has(doc, "_id") /\ Truthy(doc["_id"])
         THEN With(Without(doc, "_id"), "id", Str(doc["_id"]))
         ELSE doc

SerializeAll(docs) == [i \in DOMAIN docs |-> serialize_doc(docs[i])]

\* ------------------------------------------------------------------------
\* Responses
\* ------------------------------------------------------------------------
Reply(op, docs) ==
    [op |-> op, status |-> 200, detail |-> "", docs |-> docs,
     seeded |-> FALSE, count |-> 0]
HTTPException(op, status, detail) ==
    [op |-> op, status |-> status, detail |-> detail, docs |-> <<>>,
     seeded |-> FALSE, count |-> 0]
SeedReply(seeded, n, docs) ==
    [op |-> "seed_menu", status |-> 200, detail |-> "", docs |-> docs,
     seeded |-> seeded, count |-> n]
NotInitialized(op) == HTTPException(op, 500, "Database not initialized")

\* ------------------------------------------------------------------------
\* GET /api/menu
\* ------------------------------------------------------------------------
Categories == {TXT(""), TXT("Pizza"), TXT("Drinks")}

MatchesMenuFilter(doc, category) ==
    /\ IsAvailable(doc)
    /\ Truthy(category) => (Has(doc, "category") /\ doc["category"] = category.s)

list_menu(category) ==
    /\ resp' = IF ~db THEN NotInitialized("list_menu")
               ELSE Reply("list_menu",
                          SerializeAll(SelectSeq(menuitem,
                              LAMBDA d : MatchesMenuFilter(d, category))))
    /\ UNCHANGED <<db, menuitem, order, request, pc, count>>

\* ------------------------------------------------------------------------
\* POST /api/menu
\* ------------------------------------------------------------------------
\* request bodies: any JSON object is accepted.  One body prices a dish at
\* 0.187, the other supplies its own _id and its own id.
MenuBodies ==
    { [name |-> "Chef Special", price |-> Num(187), available |-> TRUE],
      [_id |-> INT(0), id |-> TXT("mine"), name |-> "Zero", price |-> NotANumber] }

sample_items ==
    << [name |-> "Margherita Pizza",
        description |-> "Classic with fresh mozzarella, basil, and tomatoes",
        price |-> Num(11990), category |-> "Pizza",
        image |-> "https://images.unsplash.com/photo-1548365328-9f547fb09520",
        available |-> TRUE],
       [name |-> "Pepperoni Pizza",
        description |-> "Loaded with pepperoni and cheese",
        price |-> Num(13490), category |-> "Pizza",
        image |-> "https://images.unsplash.com/photo-1601924582971-b0c5be3eebc9",
        available |-> TRUE],
       [name |-> "Veggie Burger",
        description |-> "Grilled veggie patty with avocado",
        price |-> Num(9990), category |-> "Burgers",
        image |-> "https://images.unsplash.com/photo-1550547660-d9450f859349",
        available |-> TRUE],
       [name |-> "Cheeseburger",
        description |-> "Beef patty, cheddar, pickles, house sauce",
        price |-> Num(10990), category |-> "Burgers",
        image |-> "https://images.unsplash.com/photo-1551782450-17144c3a8f59",
        available |-> TRUE],
       [name |-> "Caesar Salad",
        description |-> "Romaine, parmesan, croutons, creamy dressing",
        price |-> Num(8490), category |-> "Salads",
        image |-> "https://images.unsplash.com/photo-1551183053-bf91a1d81141",
        available |-> TRUE],
       [name |-> "Lemonade",
        description |-> "Freshly squeezed, lightly sweetened",
        price |-> Num(3490), category |-> "Drinks",
        image |-> "https://images.unsplash.com/photo-1497534547324-0ebb3f052e88",
        available |-> TRUE] >>

IsFixture(doc) == \E k \in DOMAIN sample_items : Without(doc, "_id") = sample_items[k]

\* menu documents that came in through POST /api/menu
Added(coll) == {i \in DOMAIN coll : ~IsFixture(coll[i])}

add_menu_item(item) ==
    /\ Cardinality(Added(menuitem)) < MaxAdds
    /\ IF ~db THEN
         /\ resp' = NotInitialized("add_menu_item")
         /\ UNCHANGED menuitem
       ELSE IF DuplicateKey(menuitem, item) THEN
         /\ resp' = HTTPException("add_menu_item", 500, "Internal Server Error")
         /\ UNCHANGED menuitem
       ELSE
         /\ menuitem' = InsertOne(menuitem, item)
         /\ resp' = Reply("add_menu_item",
                <<serialize_doc(FindOneById(menuitem',
                                  menuitem'[Len(menuitem')]["_id"]))>>)
    /\ UNCHANGED <<db, order, request, pc, count>>

\* ------------------------------------------------------------------------
\* POST /api/menu/seed
\* ------------------------------------------------------------------------
SeedExistingReply(coll, n) == SeedReply(FALSE, n, SerializeAll(FindAvailable(coll)))
SeedInsertedReply(coll) ==
    SeedReply(TRUE, Len(FindAvailable(coll)), SerializeAll(FindAvailable(coll)))

\* the handler run from its first line to its return with no other request's
\* store operation in between (one event loop: the handler never awaits)
seed_menu ==
    /\ IF ~db THEN
         /\ resp' = NotInitialized("seed_menu")
         /\ UNCHANGED menuitem
       ELSE IF Len(menuitem) > 0 THEN
         /\ resp' = SeedExistingReply(menuitem, Len(menuitem))
         /\ UNCHANGED menuitem
       ELSE
         /\ menuitem' = InsertMany(menuitem, sample_items)
         /\ resp' = SeedInsertedReply(menuitem')
    /\ UNCHANGED <<db, order, request, pc, count>>

\* The same handler in several server processes sharing the store: each store
\* operation is one step, and the steps of different requests interleave.
SeedCount(p) ==
    /\ pc[p] = "idle"
    /\ IF ~db THEN
         /\ resp' = NotInitialized("seed_menu")
         /\ pc' = [pc EXCEPT ![p] = "done"]
         /\ UNCHANGED count
       ELSE
         /\ count' = [count EXCEPT ![p] = Len(menuitem)]
         /\ pc' = [pc EXCEPT ![p] = "counted"]
         /\ UNCHANGED resp
    /\ UNCHANGED <<db, menuitem, order, request>>

SeedExisting(p) ==
    /\ pc[p] = "counted"
    /\ count[p] > 0
    /\ resp' = SeedExistingReply(menuitem, count[p])
    /\ pc' = [pc EXCEPT ![p] = "done"]
    /\ UNCHANGED <<db, menuitem, order, request, count>>

SeedInsertMany(p) ==
    /\ pc[p] = "counted"
    /\ ~(count[p] > 0)
    /\ menuitem' = InsertMany(menuitem, sample_items)
    /\ pc' = [pc EXCEPT ![p] = "inserted"]
    /\ UNCHANGED <<db, order, request, resp, count>>

SeedFind(p) ==
    /\ pc[p] = "inserted"
    /\ resp' = SeedInsertedReply(menuitem)
    /\ pc' = [pc EXCEPT ![p] = "done"]
    /\ UNCHANGED <<db, menuitem, order, request, count>>


\* ------------------------------------------------------------------------
\* Rounding
\* ------------------------------------------------------------------------
\* the integer nearest to n/d (d > 0), a tie going to the even neighbour
RoundHalfEven(n, d) ==
    LET q == n \div d
        r == n - q * d
    IN  IF 2 * r < d THEN q
        ELSE IF 2 * r > d THEN q + 1
        ELSE IF q % 2 = 0 THEN q ELSE q + 1

\* round(x, 2) of an amount of exactly n/d mills, in mills
Round2Ratio(n, d) == 10 * RoundHalfEven(n, 10 * d)
\* round(x, 2) of an amount of x mills
Round2(x) == Round2Ratio(x, 1)

\* ------------------------------------------------------------------------
\* POST /api/orders
\* ------------------------------------------------------------------------
\* Request bodies that pass the CreateOrder / OrderItem models of main.py:
\* item_id any string, quantity any integer, items any list, notes optional.
\* The pairs a request is built from: a string that is no ObjectId; the
\* first, second and sixth ObjectId of the menu collection in quantity 1; the
\* first also in quantities 0 and 2, and, spelled in upper case, in quantity -1.
NotAnId == TXT("not-an-id")
OrderItem ==
    { [item_id |-> NotAnId, quantity |-> 1],
      [item_id |-> HEX(1, FALSE), quantity |-> 0],
      [item_id |-> HEX(1, FALSE), quantity |-> 1],
      [item_id |-> HEX(1, FALSE), quantity |-> 2],
      [item_id |-> HEX(1, TRUE), quantity |-> -1],
      [item_id |-> HEX(2, FALSE), quantity |-> 1],
      [item_id |-> HEX(6, FALSE), quantity |-> 1] }
ItemLists == UNION {[1..n -> OrderItem] : n \in 0..MaxItems}
CreateOrder ==
    [customer_name : {"Ann"}, customer_email : {"ann@example.com"},
     customer_address : {"1 Main St"}, items : ItemLists,
     notes : {None, Some("no onions")}]

\* the tax rate, in percent
TaxRatePct == 8

\* menu_ids = [ObjectId(oi.item_id) for oi in order.items]
MenuIds(items) == [i \in DOMAIN items |-> ObjectId(items[i].item_id)]

\* find({"_id": {"$in": menu_ids}})
FindIn(coll, ids) ==
    SelectSeq(coll, LAMBDA d : \E i \in DOMAIN ids : ids[i] = d["_id"])

\* the keys of menu_docs = {str(d["_id"]): d for d in cursor}
MenuDocKeys(found) == {Str(found[i]["_id"]) : i \in DOMAIN found}

\* menu_docs.get(key)
MenuDocsGet(found, key) ==
    IF \E i \in DOMAIN found : Str(found[i]["_id"]) = key
    THEN found[CHOOSE i \in DOMAIN found : Str(found[i]["_id"]) = key]
    ELSE NoDoc

\* the existence check of line 136 passes
AllItemsFound(found, items) == Cardinality(MenuDocKeys(found)) = Len(items)

\* doc.get("price", 0), doc.get("name")
PriceField(doc) == IF Has(doc, "price") THEN doc["price"] ELSE Num(0)
NameField(doc) == IF Has(doc, "name") THEN doc["name"] ELSE "None"

\* line_total = price * oi.quantity
LineTotal(price, quantity) == price * quantity
\* the value stored in the line item: round(line_total, 2)
StoredLineTotalUnrounded(line_total) == line_total
StoredLineTotal(line_total) == Round2(line_total)
\* subtotal += line_total
AccumulateOverwrite(subtotal, line_total) == line_total
Accumulate(subtotal, line_total) == subtotal + line_total
\* tax = round(subtotal * 0.08, 2)
Tax(subtotal) == Round2Ratio(subtotal * TaxRatePct, 100)
\* total = round(subtotal + tax, 2)
TotalWithoutTax(subtotal, tax) == Round2(subtotal)
Total(subtotal, tax) == Round2(subtotal + tax)

\* the document one request item resolves to (lines 142-144)
ResolveItem(coll, found, oi) ==
    LET doc == MenuDocsGet(found, oi.item_id)
    IN  IF doc = NoDoc THEN FindOneById(coll, ObjectId(oi.item_id)) ELSE doc

\* the loop of lines 141-156, from item i on; err names the exception that
\* ended it, if any
RECURSIVE PriceItems(_, _, _, _, _)
PriceItems(coll, found, items, i, acc) ==
    IF i > Len(items) THEN acc
    ELSE LET oi == items[i]
             doc == ResolveItem(coll, found, oi)
         IN  IF doc = NoDoc THEN [acc EXCEPT !.err = "Invalid item id"]
             ELSE IF ~PriceField(doc).num THEN [acc EXCEPT !.err = "ValueError"]
             ELSE LET price == PriceField(doc).v
                      line_total == LineTotal(price, oi.quantity)
                  IN  PriceItems(coll, found, items, i + 1,
                        [err |-> "",
                         subtotal |-> Accumulate(acc.subtotal, line_total),
                         line_items |-> Append(acc.line_items,
                            [item_id |-> oi.item_id,
                             name |-> NameField(doc),
                             price |-> price,
                             quantity |-> oi.quantity,
                             line_total |-> StoredLineTotal(line_total)])])

OrderDoc(o, priced) ==
    LET tax == Tax(priced.subtotal)
        total == Total(priced.subtotal, tax)
    IN  [customer_name |-> o.customer_name,
         customer_email |-> o.customer_email,
         customer_address |-> o.customer_address,
         items |-> priced.line_items,
         subtotal |-> Round2(priced.subtotal),
         tax |-> tax,
         total |-> total,
         status |-> "pending"]

Failed(status, detail) == [status |-> status, detail |-> detail, order_doc |-> NoDoc]

\* what the handler decides before it touches the order collection
OrderOutcome(coll, o) ==
    IF ~db THEN Failed(500, "Database not initialized")
    ELSE IF \E i \in DOMAIN o.items : ~IsObjectIdString(o.items[i].item_id)
    THEN Failed(400, "Invalid item id format")
    ELSE LET found == FindIn(coll, MenuIds(o.items))
         IN  IF ~AllItemsFound(found, o.items)
             THEN Failed(400, "One or more items not found")
             ELSE LET priced == PriceItems(coll, found, o.items, 1,
                                  [err |-> "", subtotal |-> 0, line_items |-> <<>>])
                  IN  IF priced.err = "Invalid item id" THEN Failed(400, "Invalid item id")
                      ELSE IF priced.err # "" THEN Failed(500, "Internal Server Error")
                      ELSE [status |-> 200, detail |-> "",
                            order_doc |-> OrderDoc(o, priced)]

\* the order collection after the handler: db["order"].insert_one(order_doc)
\* is reached only when nothing was raised
PersistAlways(coll, outcome) == InsertOne(coll, outcome.order_doc)
Persist(coll, outcome) ==
    IF outcome.status = 200 THEN InsertOne(coll, outcome.order_doc) ELSE coll

create_order(o) ==
    /\ Len(order) < MaxOrders
    /\ LET outcome == OrderOutcome(menuitem, o)
       IN  /\ order' = Persist(order, outcome)
           /\ resp' = IF outcome.status = 200
                      THEN Reply("create_order",
                             <<serialize_doc(FindOneById(order',
                                               order'[Len(order')]["_id"]))>>)
                      ELSE HTTPException("create_order", outcome.status, outcome.detail)
    /\ UNCHANGED <<db, menuitem, pc, count>>

\* ------------------------------------------------------------------------
\* GET /api/orders
\* ------------------------------------------------------------------------
DefaultLimit == 20
Limits == {1, DefaultLimit}

\* find().sort("_id", -1): every order's _id is a store-assigned ObjectId, and
\* ObjectIds grow with the time of insertion
NewestFirst(coll) == [i \in DOMAIN coll |-> coll[Len(coll) + 1 - i]]
\* cursor.limit(n), n > 0
Limit(docs, n) == SubSeq(docs, 1, IF n < Len(docs) THEN n ELSE Len(docs))

list_orders(limit) ==
    /\ resp' = IF ~db THEN NotInitialized("list_orders")
               ELSE Reply("list_orders", SerializeAll(Limit(NewestFirst(order), limit)))
    /\ UNCHANGED <<db, menuitem, order, request, pc, count>>

\* ------------------------------------------------------------------------
\* Specifications
\* ------------------------------------------------------------------------
\* the handler, the request body forgotten once it is answered
CreateOrderRequest(o) == create_order(o) /\ UNCHANGED request
\* the handler, the request body kept beside the response
CreateOrderRecorded(o) == create_order(o) /\ request' = o

\* one server process: requests handled one at a time
Next ==
    \/ \E item \in MenuBodies : add_menu_item(item)
    \/ seed_menu
    \/ \E o \in CreateOrder : CreateOrderRequest(o)
    \/ \E limit \in Limits : list_orders(limit)

Spec == Init /\ [][Next]_vars

\* the same, with the body of each create-order request recorded beside its
\* response
NextRecorded ==
    \/ \E item \in MenuBodies : add_menu_item(item)
    \/ seed_menu
    \/ \E o \in CreateOrder : CreateOrderRecorded(o)
    \/ \E limit \in Limits : list_orders(limit)

SpecRecorded == Init /\ [][NextRecorded]_vars

\* several server processes on one store: seed requests whose store operations
\* interleave with each other and with the other menu requests
NextSeed ==
    \/ \E p \in Seeders : SeedCount(p)
    \/ \E p \in Seeders : SeedExisting(p)
    \/ \E p \in Seeders : SeedInsertMany(p)
    \/ \E p \in Seeders : SeedFind(p)
    \/ \E item \in MenuBodies : add_menu_item(item)
    \/ \E category \in Categories : list_menu(category)

SpecSeed == Init /\ [][NextSeed]_vars

\* ------------------------------------------------------------------------
\* Properties
\* ------------------------------------------------------------------------
Orders == {order[i] : i \in DOMAIN order}
Lines(doc) == {doc["items"][i] : i \in DOMAIN doc["items"]}
RECURSIVE SumLineTotals(_)
SumLineTotals(items) ==
    IF items = <<>> THEN 0 ELSE Head(items).line_total + SumLineTotals(Tail(items))
\* every price of the order is a whole number of cents
CentPriced(doc) == \A l \in Lines(doc) : l.price % 10 = 0

\* C1: a create-order request that fails leaves the order collection and the
\* menu collection as they were; one that succeeds appends exactly one
\* document to the order collection and writes nothing else.
C1_FailureWritesNothingSuccessInsertsOne ==
    [][resp'.op = "create_order" =>
         /\ menuitem' = menuitem
         /\ IF resp'.status = 200
            THEN /\ Len(order') = Len(order) + 1
                 /\ SubSeq(order', 1, Len(order)) = order
            ELSE order' = order]_vars

\* a request naming an item the non-empty menu does not hold was rejected
C1_Witness ==
    /\ resp.op = "create_order"
    /\ resp.status = 400
    /\ resp.detail = "One or more items not found"
    /\ menuitem # <<>>
    /\ order = <<>>

\* the request's every reference parses
WellFormed(o) == \A i \in DOMAIN o.items : IsObjectIdString(o.items[i].item_id)
RequestedIds(o) == {ObjectId(o.items[i].item_id) : i \in DOMAIN o.items}
ResolvedIds(o) ==
    {id \in RequestedIds(o) : \E i \in DOMAIN menuitem : menuitem[i]["_id"] = id}

\* C2: a well-formed request is rejected as naming a missing item exactly when
\* the number of distinct MenuItems it resolves to differs from the number of
\* distinct references it makes; so a request that repeats a reference to an
\* existing item is persisted (stated for the requests with quantities >= 1).
C2_RejectedIffDistinctCountsDiffer ==
    (/\ resp.op = "create_order"
     /\ db
     /\ WellFormed(request)
     /\ \A i \in DOMAIN request.items : request.items[i].quantity >= 1) =>
      ((resp.status = 400)
         <=> (Cardinality(ResolvedIds(request)) # Cardinality(RequestedIds(request))))

\* C3: every line item of every persisted order has quantity >= 1.
C3_QuantitiesAtLeastOne ==
    \A d \in Orders : \A l \in Lines(d) : l.quantity >= 1

\* C4: every persisted order has at least one line item.
C4_OrdersNonEmpty ==
    \A d \in Orders : Len(d["items"]) >= 1

\* C5: when a create-order request supplies notes, the persisted document and
\* the response carry them (stated for the requests with at least one item and
\* quantities >= 1).
C5_NotesPersisted ==
    (/\ resp.op = "create_order"
     /\ resp.status = 200
     /\ request.notes.some
     /\ request.items # <<>>
     /\ \A i \in DOMAIN request.items : request.items[i].quantity >= 1) =>
       LET created == order[Len(order)]
           returned == resp.docs[1]
       IN  /\ Has(created, "notes") /\ created["notes"] = request.notes.s
           /\ Has(returned, "notes") /\ returned["notes"] = request.notes.s

\* the stored tax and total, recomputed from the stored subtotal
TaxTotalFromStoredSubtotal(d) ==
    /\ d["tax"] = 10 * RoundHalfEven(d["subtotal"] * 8, 1000)
    /\ d["total"] = 10 * RoundHalfEven(d["subtotal"] + d["tax"], 10)

IsExampleOrder(d) ==
    /\ Len(d["items"]) = 2
    /\ d["items"][1].price = 11990 /\ d["items"][1].quantity = 2
    /\ d["items"][2].price = 3490 /\ d["items"][2].quantity = 1

\* C6 as stated: in every persisted order, whatever the menu prices,
\* tax = round(subtotal * 0.08, 2) and total = round(subtotal + tax, 2) over
\* the stored subtotal.
C6_TaxTotalFromStoredSubtotal_AllPrices ==
    \A d \in Orders : TaxTotalFromStoredSubtotal(d)

\* C6 as amended: the two equations hold over the stored subtotal in every
\* persisted order whose prices have at most two decimal places; 2 x 11.99
\* plus 1 x 3.49 gives subtotal 27.47, tax 2.20 and total 29.67.
C6_TaxTotalFromStoredSubtotal_CentPrices ==
    \A d \in Orders :
      /\ CentPriced(d) => TaxTotalFromStoredSubtotal(d)
      /\ IsExampleOrder(d) =>
           (d["subtotal"] = 27470 /\ d["tax"] = 2200 /\ d["total"] = 29670)

\* the example order is in the order collection
C6_Witness ==
    \E d \in Orders : IsExampleOrder(d) /\ d["total"] = 29670

\* C7 as stated: in every persisted order, whatever the menu prices, the
\* stored subtotal is the sum of the stored line totals.
C7_SubtotalIsSumOfLineTotals_AllPrices ==
    \A d \in Orders : d["subtotal"] = SumLineTotals(d["items"])

\* C7 as amended: the stored subtotal is the sum of the stored line totals in
\* every persisted order whose prices have at most two decimal places.
C7_SubtotalIsSumOfLineTotals_CentPrices ==
    \A d \in Orders : CentPriced(d) => d["subtotal"] = SumLineTotals(d["items"])

\* an order of two lines at whole-cent prices, neither line total zero
C7_Witness ==
    \E d \in Orders :
      /\ CentPriced(d)
      /\ Len(d["items"]) = 2
      /\ \A l \in Lines(d) : l.line_total # 0

C9_FixtureInsertedAtMostOnce ==
    \A k \in DOMAIN sample_items :
      Cardinality({i \in DOMAIN menuitem :
                     Without(menuitem[i], "_id") = sample_items[k]}) <= 1

\* C10: every returned document has no _id field and has an id field; the
\* document POST /api/menu returns has the string form of its store
\* identifier as id.
C10_IdNeverExposed ==
    resp.status = 200 =>
      /\ \A i \in DOMAIN resp.docs :
           ~Has(resp.docs[i], "_id") /\ Has(resp.docs[i], "id")
      /\ resp.op = "add_menu_item" =>
           resp.docs[1]["id"] = Str(menuitem[Len(menuitem)]["_id"])

====
